---- MODULE Spec2Model ----
(***************************************************************************)
(* rtl_splitter: a fan-out proxy for an rtl_tcp stream (src/rtl_split.py). *)
(*                                                                         *)
(* One asyncio event loop runs the main task, the upstream read-and-       *)
(* broadcast task (RTLSplitter.splitter), the listener (server_loop) and   *)
(* one handler task per accepted client (RTLClient.callback).  The code    *)
(* between two awaits of a task runs without interruption, so every action *)
(* below is one such run of one task: from the point where an await        *)
(* returns to the next await of that task.  The peers (the upstream        *)
(* server, the downstream clients, the network, the operator's interrupt   *)
(* key) are the environment and have actions of their own.                 *)
(***************************************************************************)
EXTENDS Integers, Sequences, FiniteSets, TLC

\* ------------------------------------------------------------- bounds
NumClients == 3      \* connections the listener accepts in one run
MaxChunks == 2       \* chunks the upstream server sends before it goes quiet
MaxFrames == 2       \* frames the clients send, all together
MaxCloses == 1       \* clients that close their connection themselves
MaxFaults == 1       \* downstream connections lost
ShortHeaderLen == 4  \* length of a short first read from upstream
PartialLen == 3      \* length of a partial network segment of a frame

\* ---------------------------------------------------- program constants
RTL_HEADER_SIZE == 12
CommandRead == 5     \* the n of reader.read(n) in callback
StructSize == 5      \* struct.calcsize(">BI")

Clients == 1..NumClients

\* The members of RTLCommand: the opcodes 0x01 .. 0x0e.
RTLCommand == 1..14

\* What the upstream server sends first: struct rtl_tcp_info, "RTL0", the
\* tuner type and the gain count.
UpstreamHello == <<82, 84, 76, 48, 0, 0, 0, 5, 0, 0, 0, 29>>

\* The frames a client may send: the spec's SET_FREQ 100, and one whose
\* opcode is no member of RTLCommand.
Frames == { <<1, 0, 0, 0, 100>>, <<15, 0, 0, 1, 0>> }

\* Mutant: the data of an earlier read.
ChunkStale(k) == <<170, MaxChunks + 1 - k>>

\* The k-th chunk of samples upstream sends (a read of at most 1024 bytes).
Chunk(k) == <<170, k>>

\* The exceptions a lost downstream connection raises in the task that next
\* reads from it or drains it: ECONNRESET, EPIPE, ETIMEDOUT.
ErrorKinds == {"ConnectionResetError", "BrokenPipeError", "TimeoutError"}

Live == {"open", "eof"}

\* What the environment does in one run is one of these scenarios: how many
\* chunks upstream sends, how many frames the clients send, how many clients
\* close, how many downstream connections are lost, whether the upstream
\* connection can be lost, whether the first read from upstream can be short.
Scenarios ==
    { [name |-> "relay", chunks |-> MaxChunks, frames |-> 0,
       closes |-> MaxCloses, faults |-> MaxFaults, uplost |-> FALSE,
       short |-> FALSE],
      [name |-> "commands", chunks |-> 1, frames |-> MaxFrames,
       closes |-> 0, faults |-> 0, uplost |-> TRUE, short |-> FALSE],
      [name |-> "startup", chunks |-> 1, frames |-> 0,
       closes |-> 0, faults |-> 0, uplost |-> TRUE, short |-> TRUE] }

VARIABLES
    mainpc,          \* where main() is
    exitStatus,      \* the status the process ends with, -1 while it runs
    listening,       \* the downstream listener accepts connections
    up,              \* the upstream connection
    header,          \* RTLSplitter.header
    client_writers,  \* RTLSplitter.client_writers
    spc,             \* where splitter() is
    chunkNo,         \* chunks read from upstream so far
    data,            \* splitter's local data
    it,              \* the index of the list iterator of splitter's for loop
    cur,             \* splitter's local c, 0 outside the loop
    hpc,             \* where each client's callback() is
    conn,            \* each downstream connection
    cnet,            \* bytes a client sent that have not yet arrived
    cin,             \* bytes buffered in each client's StreamReader
    sent,            \* history: the frames each client sent
    out,             \* history: the writes made to each client's writer
    upOut,           \* history: the bytes written to the upstream writer
    upLog,           \* history: the client behind each upstream write
    bcast,           \* history: the current or last broadcast pass
    why,             \* history: what took each handler to its finally block
    scn,             \* environment: the scenario of this run
    closes,          \* environment: connections closed by clients so far
    faults           \* environment: downstream connections lost so far

vars == <<mainpc, exitStatus, listening, up, header, client_writers, spc,
          chunkNo, data, it, cur, hpc, conn, cnet, cin, sent, out, upOut,
          upLog, bcast, why, scn, closes, faults>>

mainVars == <<mainpc, exitStatus, listening>>
envVars == <<scn, closes, faults>>
splitVars == <<spc, chunkNo, data, it, cur>>
cmdVars == <<cnet, cin, sent, upOut, upLog>>

\* ------------------------------------------------------------ helpers
Range(s) == { s[i] : i \in 1..Len(s) }

Min(a, b) == IF a < b THEN a ELSE b

IndexOf(s, x) == CHOOSE i \in 1..Len(s) : s[i] = x /\ \A j \in 1..(i - 1) : s[j] # x

\* list.remove(x): drops the first occurrence of x.
ListRemove(s, x) ==
    LET i == IndexOf(s, x)
    IN  SubSeq(s, 1, i - 1) \o SubSeq(s, i + 1, Len(s))

Occurrences(s, x) == Cardinality({ i \in 1..Len(s) : s[i] = x })

NoPass == [chunk |-> 0, active |-> FALSE, start |-> {}, added |-> {},
           removed |-> {}, selfrem |-> {}, failed |-> {}, endreg |-> {},
           live |-> {}]

Init ==
    /\ mainpc = "start"
    /\ exitStatus = -1
    /\ listening = FALSE
    /\ up = "none"
    /\ header = <<>>
    /\ client_writers = <<>>
    /\ spc = "none"
    /\ chunkNo = 0
    /\ data = <<>>
    /\ it = 0
    /\ cur = 0
    /\ hpc = [c \in Clients |-> "none"]
    /\ conn = [c \in Clients |-> "none"]
    /\ cnet = [c \in Clients |-> <<>>]
    /\ cin = [c \in Clients |-> <<>>]
    /\ sent = [c \in Clients |-> <<>>]
    /\ out = [c \in Clients |-> <<>>]
    /\ upOut = <<>>
    /\ upLog = <<>>
    /\ bcast = NoPass
    /\ why = [c \in Clients |-> "none"]
    /\ scn \in Scenarios
    /\ closes = 0
    /\ faults = 0

\* ------------------------------------------------------------- main()
\* Mutant: a refused connection that does not stop main().
AEnterConnectGoesOn ==
    /\ mainpc = "start"
    /\ \/ /\ up' = "open"
          /\ mainpc' = "connected"
          /\ UNCHANGED exitStatus
       \/ /\ up' = "refused"
          /\ mainpc' = "entered"
          /\ UNCHANGED exitStatus
    /\ UNCHANGED <<listening, header, client_writers, splitVars, hpc,
                   conn, cmdVars, out, bcast, envVars, why>>

\* asyncio.open_connection in __aenter__: the connection is made, or the
\* ConnectionError leaves main() and the process ends with a traceback.
AEnterConnect ==
    /\ mainpc = "start"
    /\ \/ /\ up' = "open"
          /\ mainpc' = "connected"
          /\ UNCHANGED exitStatus
       \/ /\ up' = "refused"
          /\ mainpc' = "failed"
          /\ exitStatus' = 1
    /\ UNCHANGED <<listening, header, client_writers, splitVars, hpc,
                   conn, cmdVars, out, bcast, envVars, why>>

\* What r.read(RTL_HEADER_SIZE) returns: at most RTL_HEADER_SIZE of the bytes
\* that have arrived, n of them.
HeaderRead(n) == SubSeq(UpstreamHello, 1, Min(n, RTL_HEADER_SIZE))

\* self.header = await r.read(RTL_HEADER_SIZE): the whole hello, a short
\* first segment of it, or the exception of a lost connection.
AEnterHeader ==
    /\ mainpc = "connected"
    /\ \/ /\ up = "open"
          /\ \E n \in {Len(UpstreamHello)} \cup
                        (IF scn.short THEN {ShortHeaderLen} ELSE {}) :
                header' = HeaderRead(n)
          /\ mainpc' = "entered"
          /\ UNCHANGED <<up, exitStatus>>
       \/ /\ up = "lost"
          /\ mainpc' = "failed"
          /\ exitStatus' = 1
          /\ UNCHANGED <<up, header>>
    /\ UNCHANGED <<listening, client_writers, splitVars, hpc, conn,
                   cmdVars, out, bcast, envVars, why>>

\* asyncio.gather(server_loop(...), rtl.splitter()): both tasks start.
Gather ==
    /\ mainpc = "entered"
    /\ mainpc' = "running"
    /\ listening' = TRUE
    /\ spc' = "read"
    /\ UNCHANGED <<exitStatus, up, header, client_writers, chunkNo,
                   data, it, cur, hpc, conn, cmdVars, out, bcast, envVars, why>>

\* --------------------------------------------------- RTLSplitter.splitter
\* The pass of the for loop over client_writers has ended (or was abandoned):
\* the registry and the connections as they are at that moment.
EndPass(list, bc) ==
    [bc EXCEPT !.active = FALSE,
               !.endreg = Range(list),
               !.live = { h \in Range(list) : conn[h] \in Live }]

\* c.write(d) followed by the await of c.drain(), lines 83-84.  The transport
\* of a lost connection drops the bytes.
WriteTo(c, d) ==
    /\ cur' = c
    /\ out' = [out EXCEPT ![c] = IF conn[c] \in Live THEN Append(@, d) ELSE @]
    /\ spc' = "drain"

\* next() of the list iterator of "for c in self.client_writers": the
\* iterator holds an index into the list itself, not into a copy of it.
IterHasNext(i, list) == i < Len(list)

\* Mutant: an iterator that does not advance.
IterItemFirst(i, list) == list[1]

IterItem(i, list) == list[i + 1]

\* One turn of the for loop, line 81, with the iterator at index i over the
\* list as it is now: the next handle is written, or the loop is over and
\* the task is back at the read of line 76.
ForNext(i, list, d, bc) ==
    /\ client_writers' = list
    /\ IF IterHasNext(i, list)
       THEN /\ it' = i + 1
            /\ WriteTo(IterItem(i, list), d)
            /\ bcast' = bc
       ELSE /\ it' = 0
            /\ cur' = 0
            /\ spc' = "read"
            /\ out' = out
            /\ bcast' = EndPass(list, bc)

\* data = await self.reader.read(1024) returns a chunk; the for loop starts.
SplitterReadData ==
    /\ spc = "read"
    /\ up = "open"
    /\ chunkNo < scn.chunks
    /\ chunkNo' = chunkNo + 1
    /\ data' = Chunk(chunkNo + 1)
    /\ ForNext(0, client_writers, Chunk(chunkNo + 1),
               [NoPass EXCEPT !.chunk = chunkNo + 1, !.active = TRUE,
                              !.start = Range(client_writers)])
    /\ UNCHANGED <<mainVars, up, header, hpc, conn, cmdVars, envVars, why>>

\* The read returns b'': upstream closed, the loop breaks, splitter returns.
SplitterReadEOF ==
    /\ spc = "read"
    /\ up \in {"open", "eof"}
    /\ up' = "eof"
    /\ data' = <<>>
    /\ spc' = "done"
    /\ UNCHANGED <<mainVars, header, client_writers, chunkNo, it, cur, hpc,
                   conn, cmdVars, out, bcast, envVars, why>>

\* The read raises: the upstream connection is lost, nothing in splitter
\* catches it.
SplitterReadError ==
    /\ spc = "read"
    /\ up = "lost"
    /\ spc' = "crashed"
    /\ UNCHANGED <<mainVars, up, header, client_writers, chunkNo, data, it,
                   cur, hpc, conn, cmdVars, out, bcast, envVars, why>>

\* The except clauses of lines 85-90: the two exceptions they name.
Caught == {"ConnectionResetError", "BrokenPipeError"}

\* Mutant: a removal that takes the last handle when c is not in the list.
PruneWriterBlind(list, c) ==
    IF c \in Range(list) THEN ListRemove(list, c)
    ELSE SubSeq(list, 1, Len(list) - 1)

\* The body of both except clauses: "if c in list: list.remove(c)".
PruneWriter(list, c) == IF c \in Range(list) THEN ListRemove(list, c) ELSE list

\* await c.drain() returns: the client has read enough for the write buffer
\* to be below its high-water mark (at once, when it never was above it).
\* The loop goes on with the next handle.
DrainReturns ==
    /\ spc = "drain"
    /\ conn[cur] \in Live
    /\ ForNext(it, client_writers, data, bcast)
    /\ UNCHANGED <<mainVars, up, header, chunkNo, data, hpc, conn, cmdVars, envVars, why>>

\* Mutant: except clauses that close the writer they prune.
DrainRaisesAndCloses(exc) ==
    /\ spc = "drain"
    /\ \/ conn[cur] = "lost"
       \/ conn[cur] = "closed" /\ exc = "ConnectionResetError"
    /\ LET bc == [bcast EXCEPT
                    !.failed = IF conn[cur] = "lost" THEN @ \cup {cur} ELSE @,
                    !.removed = IF exc \in Caught /\ cur \in Range(client_writers)
                                THEN @ \cup {cur} ELSE @]
       IN  IF exc \in Caught
           THEN ForNext(it, PruneWriter(client_writers, cur), data, bc)
           ELSE /\ spc' = "crashed"
                /\ bcast' = EndPass(client_writers, bc)
                /\ UNCHANGED <<client_writers, it, cur, out>>
    /\ conn' = [conn EXCEPT ![cur] = "closed"]
    /\ UNCHANGED <<mainVars, up, header, chunkNo, data, hpc, cmdVars, envVars, why>>

\* await c.drain() raises exc.  A lost connection raises the exception of
\* its failure, one of ErrorKinds; a writer its own handler has closed
\* meanwhile gives "Connection lost" as a ConnectionResetError (or a plain
\* return, with the same effect: the handle is no longer in the list).  A
\* caught exception prunes c and the loop goes on; any other leaves splitter.
DrainRaises(exc) ==
    /\ spc = "drain"
    /\ \/ conn[cur] = "lost"
       \/ conn[cur] = "closed" /\ exc = "ConnectionResetError"
    /\ LET bc == [bcast EXCEPT
                    !.failed = IF conn[cur] = "lost" THEN @ \cup {cur} ELSE @,
                    !.removed = IF exc \in Caught /\ cur \in Range(client_writers)
                                THEN @ \cup {cur} ELSE @]
       IN  IF exc \in Caught
           THEN ForNext(it, PruneWriter(client_writers, cur), data, bc)
           ELSE /\ spc' = "crashed"
                /\ bcast' = EndPass(client_writers, bc)
                /\ UNCHANGED <<client_writers, it, cur, out>>
    /\ UNCHANGED <<mainVars, up, header, chunkNo, data, hpc, conn, cmdVars, envVars, why>>

\* ---------------------------------------------------- RTLClient.callback
\* Mutant: an add_client that appends the writer twice.
add_clientTwice(list, writer) == Append(Append(list, writer), writer)

add_client(list, writer) == Append(list, writer)

\* Mutant: a rem_client that leaves the list as it is.
rem_clientKeeps(list, writer) == list

rem_client(list, writer) ==
    IF writer \in Range(list) THEN ListRemove(list, writer) ELSE list

\* Mutant: the header as the constructor left it.
HeaderBytesStale == <<>>

\* The bytes callback writes first, line 105: self.rtl.header.
HeaderBytes == header

\* Mutant: no check of the length of d.
UnpackAnyLength(d) == [ok |-> TRUE, c |-> d[1], v |-> 0]

\* struct.unpack(">BI", d): an unsigned byte and a big-endian unsigned 32-bit
\* value, or struct.error when d is not StructSize bytes long.
Unpack(d) ==
    IF Len(d) = StructSize
    THEN [ok |-> TRUE, c |-> d[1],
          v |-> ((d[2] * 256 + d[3]) * 256 + d[4]) * 256 + d[5]]
    ELSE [ok |-> FALSE, c |-> 0, v |-> 0]

\* RTLCommand(c) returns a member, or raises ValueError.
IsRTLCommand(c) == c \in RTLCommand

\* What reader.read(CommandRead) returns from a buffer that is not empty.
ReadBytes(buf) == SubSeq(buf, 1, Min(CommandRead, Len(buf)))

\* The bytes send_command hands to the upstream writer, line 60.
CommandBytes(cmd) == cmd

\* Mutant: a finally block that leaves the connection as it is.
ClosingKeepsOpen(c) ==
    /\ client_writers' = rem_client(client_writers, c)
    /\ conn' = conn
    /\ hpc' = [hpc EXCEPT ![c] = "done"]
    /\ cin' = [cin EXCEPT ![c] = <<>>]
    /\ cnet' = [cnet EXCEPT ![c] = <<>>]
    /\ bcast' = bcast

\* The finally block, lines 121-124: rem_client, writer.close() and the
\* await of wait_closed, after which the handler is over whatever the
\* exception it ends with.
Closing(c) ==
    /\ client_writers' = rem_client(client_writers, c)
    /\ conn' = [conn EXCEPT ![c] = "closed"]
    /\ hpc' = [hpc EXCEPT ![c] = "done"]
    /\ cin' = [cin EXCEPT ![c] = <<>>]
    /\ cnet' = [cnet EXCEPT ![c] = <<>>]
    /\ bcast' = IF bcast.active /\ c \in Range(client_writers)
                THEN [bcast EXCEPT !.removed = @ \cup {c},
                                   !.selfrem = IF c # cur
                                               THEN @ \cup {c} ELSE @]
                ELSE bcast

\* The handler of c leaves its try block for reason r and runs the finally
\* block.
Leaves(c, r) ==
    /\ Closing(c)
    /\ why' = [why EXCEPT ![c] = r]

HandlersRun == mainpc \in {"running", "aexit"}

\* Mutant: a handler that registers its writer and writes no header before
\* its first await.
AcceptNoHeader(c) ==
    /\ listening
    /\ HandlersRun
    /\ hpc[c] = "none"
    /\ \A b \in Clients : b < c => hpc[b] # "none"
    /\ conn' = [conn EXCEPT ![c] = "open"]
    /\ client_writers' = add_client(client_writers, c)
    /\ out' = out
    /\ hpc' = [hpc EXCEPT ![c] = "header_drain"]
    /\ bcast' = IF bcast.active
                THEN [bcast EXCEPT !.added = @ \cup {c}] ELSE bcast
    /\ UNCHANGED <<mainVars, up, header, splitVars, cmdVars, envVars, why>>

\* The listener accepts the next connection and its handler runs to the
\* first await: add_client, the write of the header, await writer.drain().
Accept(c) ==
    /\ listening
    /\ HandlersRun
    /\ hpc[c] = "none"
    /\ \A b \in Clients : b < c => hpc[b] # "none"
    /\ conn' = [conn EXCEPT ![c] = "open"]
    /\ client_writers' = add_client(client_writers, c)
    /\ out' = [out EXCEPT ![c] = Append(@, HeaderBytes)]
    /\ hpc' = [hpc EXCEPT ![c] = "header_drain"]
    /\ bcast' = IF bcast.active
                THEN [bcast EXCEPT !.added = @ \cup {c}] ELSE bcast
    /\ UNCHANGED <<mainVars, up, header, splitVars, cmdVars, envVars, why>>

\* await writer.drain() of line 106 ends: the loop is entered, or the
\* exception of the lost connection takes the handler to the finally block.
HeaderDrain(c) ==
    /\ HandlersRun
    /\ hpc[c] = "header_drain"
    /\ IF conn[c] \in Live
       THEN /\ hpc' = [hpc EXCEPT ![c] = "read"]
            /\ UNCHANGED <<client_writers, conn, cin, cnet, bcast, why>>
       ELSE Leaves(c, "header")
    /\ UNCHANGED <<mainVars, up, header, splitVars, sent, out, upOut, upLog, envVars>>

\* await reader.read(5) of line 109 ends and the handler runs to its next
\* await: the drain of send_command, or the finally block
\* (a lost connection, b'' at the end of the stream, struct.error on a short
\* read, ValueError on an opcode that is no RTLCommand).  writer.write of a
\* closed or lost upstream transport drops the bytes.
HandlerRead(c) ==
    /\ HandlersRun
    /\ hpc[c] = "read"
    /\ \/ /\ conn[c] = "lost"
          /\ Leaves(c, "reset")
          /\ UNCHANGED <<upOut, upLog>>
       \/ /\ conn[c] = "eof"
          /\ cin[c] = <<>>
          /\ cnet[c] = <<>>
          /\ Leaves(c, "eof")
          /\ UNCHANGED <<upOut, upLog>>
       \/ /\ conn[c] \in Live
          /\ cin[c] # <<>>
          /\ LET d == ReadBytes(cin[c])
                 u == Unpack(d)
             IN  IF u.ok /\ IsRTLCommand(u.c)
                 THEN /\ cin' = [cin EXCEPT ![c] =
                                   SubSeq(@, Len(d) + 1, Len(@))]
                      /\ upOut' = IF up \in Live
                                  THEN upOut \o CommandBytes(d) ELSE upOut
                      /\ upLog' = IF up \in Live
                                  THEN Append(upLog, c) ELSE upLog
                      /\ hpc' = [hpc EXCEPT ![c] = "send_drain"]
                      /\ UNCHANGED <<client_writers, conn, cnet, bcast, why>>
                 ELSE /\ Leaves(c, "decode")
                      /\ UNCHANGED <<upOut, upLog>>
    /\ UNCHANGED <<mainVars, up, header, splitVars, sent, out, envVars>>

\* Mutant: a failed send_command that ends splitter as well.
SendDrainFatal(c) ==
    /\ HandlersRun
    /\ hpc[c] = "send_drain"
    /\ IF up \in Live
       THEN /\ hpc' = [hpc EXCEPT ![c] = "read"]
            /\ UNCHANGED <<client_writers, conn, cin, cnet, bcast, why, spc>>
       ELSE Leaves(c, "upstream") /\ spc' = "crashed"
    /\ UNCHANGED <<mainVars, up, header, chunkNo, data, it, cur, sent, out,
                   upOut, upLog, envVars>>

\* await self.writer.drain() of send_command ends: back to the read, or the
\* exception of the lost upstream connection takes the handler to the
\* finally block.
SendDrain(c) ==
    /\ HandlersRun
    /\ hpc[c] = "send_drain"
    /\ IF up \in Live
       THEN /\ hpc' = [hpc EXCEPT ![c] = "read"]
            /\ UNCHANGED <<client_writers, conn, cin, cnet, bcast, why>>
       ELSE Leaves(c, "upstream")
    /\ UNCHANGED <<mainVars, up, header, splitVars, sent, out, upOut, upLog, envVars>>

\* CancelledError is raised at the await the handler waits in.
Cancelled(c) ==
    /\ mainpc = "cancel_all"
    /\ hpc[c] \in {"header_drain", "read", "send_drain"}
    /\ Leaves(c, "cancel")
    /\ UNCHANGED <<mainVars, up, header, splitVars, sent, out, upOut, upLog, envVars>>

\* ------------------------------------------------------ main(), the end
\* The exception that left splitter leaves gather and the "async with" of
\* main: __aexit__ closes the upstream writer.  gather does not cancel
\* server_loop, which goes on accepting.
GatherRaises ==
    /\ mainpc = "running"
    /\ spc = "crashed"
    /\ mainpc' = "aexit"
    /\ up' = "closed"
    /\ UNCHANGED <<exitStatus, listening, header, client_writers,
                   splitVars, hpc, conn, cmdVars, out, bcast, envVars, why>>

\* asyncio.run cancels every task that is left: server_loop and the
\* handlers.
CancelAll ==
    /\ mainpc = "aexit"
    /\ mainpc' = "cancel_all"
    /\ listening' = FALSE
    /\ UNCHANGED <<exitStatus, up, header, client_writers, splitVars,
                   hpc, conn, cmdVars, out, bcast, envVars, why>>

\* Every task is over: the exception leaves asyncio.run and the process
\* ends with the traceback's status 1.
Exit ==
    /\ mainpc = "cancel_all"
    /\ \A c \in Clients : hpc[c] \in {"none", "done"}
    /\ mainpc' = "exited"
    /\ exitStatus' = 1
    /\ UNCHANGED <<listening, up, header, client_writers, splitVars,
                   hpc, conn, cmdVars, out, bcast, envVars, why>>

\* ------------------------------------------------------- the environment
RECURSIVE SumLen(_, _)
SumLen(f, n) == IF n = 0 THEN 0 ELSE Len(f[n]) + SumLen(f, n - 1)

FramesSent == SumLen(sent, NumClients)

\* A connected client sends one frame.
ClientSend(c, f) ==
    /\ conn[c] = "open"
    /\ FramesSent < scn.frames
    /\ sent' = [sent EXCEPT ![c] = Append(@, f)]
    /\ cnet' = [cnet EXCEPT ![c] = @ \o f]
    /\ UNCHANGED <<mainVars, up, header, client_writers, splitVars, hpc, conn,
                   cin, out, upOut, upLog, bcast, envVars, why>>

\* The network delivers the next n bytes a client sent.
Deliver(c, n) ==
    /\ conn[c] \in Live
    /\ n \in 1..Len(cnet[c])
    /\ cin' = [cin EXCEPT ![c] = @ \o SubSeq(cnet[c], 1, n)]
    /\ cnet' = [cnet EXCEPT ![c] = SubSeq(@, n + 1, Len(@))]
    /\ UNCHANGED <<mainVars, up, header, client_writers, splitVars, hpc, conn,
                   sent, out, upOut, upLog, bcast, envVars, why>>

\* A client closes its side of the connection.
PeerClose(c) ==
    /\ conn[c] = "open"
    /\ closes < scn.closes
    /\ closes' = closes + 1
    /\ conn' = [conn EXCEPT ![c] = "eof"]
    /\ UNCHANGED <<mainVars, up, header, client_writers, splitVars, hpc,
                   cmdVars, out, bcast, scn, faults, why>>

\* A downstream connection is lost: reads and drains of it raise.
PeerFail(c) ==
    /\ conn[c] \in Live
    /\ faults < scn.faults
    /\ faults' = faults + 1
    /\ conn' = [conn EXCEPT ![c] = "lost"]
    /\ cnet' = [cnet EXCEPT ![c] = <<>>]
    /\ cin' = [cin EXCEPT ![c] = <<>>]
    /\ UNCHANGED <<mainVars, up, header, client_writers, splitVars, hpc, sent,
                   out, upOut, upLog, bcast, scn, closes, why>>

\* The upstream connection is lost.
UpstreamLost ==
    /\ up \in Live
    /\ mainpc \in {"connected", "entered", "running"}
    /\ scn.uplost
    /\ up' = "lost"
    /\ UNCHANGED <<mainVars, header, client_writers, splitVars, hpc, conn,
                   cmdVars, out, bcast, envVars, why>>

\* ------------------------------------------------------ specifications
Next ==
    \/ AEnterConnect
    \/ AEnterHeader
    \/ Gather
    \/ SplitterReadData
    \/ SplitterReadEOF
    \/ SplitterReadError
    \/ DrainReturns
    \/ \E e \in ErrorKinds : DrainRaises(e)
    \/ \E c \in Clients : Accept(c)
    \/ \E c \in Clients : HeaderDrain(c)
    \/ \E c \in Clients : HandlerRead(c)
    \/ \E c \in Clients : SendDrain(c)
    \/ \E c \in Clients : Cancelled(c)
    \/ GatherRaises
    \/ CancelAll
    \/ Exit
    \/ \E c \in Clients : \E f \in Frames : ClientSend(c, f)
    \/ \E c \in Clients : \E n \in {PartialLen, StructSize} : Deliver(c, n)
    \/ \E c \in Clients : PeerClose(c)
    \/ \E c \in Clients : PeerFail(c)
    \/ UpstreamLost

Spec == Init /\ [][Next]_vars

\* The event loop runs every task that can run: each step of splitter and of
\* the handlers that does not wait for a peer is taken.  The return of a
\* drain waits for the client to read, and nothing makes a client read.
ProgramStep ==
    \/ SplitterReadData
    \/ SplitterReadEOF
    \/ SplitterReadError
    \/ \E e \in ErrorKinds : DrainRaises(e)
    \/ \E c \in Clients : HeaderDrain(c)
    \/ \E c \in Clients : HandlerRead(c)
    \/ \E c \in Clients : SendDrain(c)
    \/ \E c \in Clients : Cancelled(c)
    \/ GatherRaises
    \/ CancelAll
    \/ Exit

FairSpec == Spec /\ WF_vars(ProgramStep)

\* ------------------------------------------------------------- claims
\* How many times chunk k was written to handle h.
Got(h, k) == Occurrences(out[h], Chunk(k))

Registered(h) == h \in Range(client_writers)

\* A broadcast pass has ended.
PassOver == bcast.chunk > 0 /\ ~bcast.active

\* The handles registered and live from the start to the end of the pass.
Through == (bcast.start \cap bcast.live) \ bcast.removed

\* C1: when the write to a handle X fails during the broadcast of a chunk, X
\* is removed from the registry and every other handle registered and live
\* for the whole of that pass has received the chunk in it (stated of the
\* passes that the loop completes).
C1_FailedWriteReachesOthers ==
    (PassOver /\ bcast.failed # {} /\ spc # "crashed") =>
        /\ bcast.failed \cap bcast.endreg = {}
        /\ \A h \in Through \ bcast.failed : Got(h, bcast.chunk) >= 1

\* C2: when a handler removes its own handle while the loop awaits another
\* handle's write (and no write fails in the pass), every handle registered
\* from the start to the end of the pass receives the chunk exactly once.
C2_SelfRemovalSkipsNobody ==
    (PassOver /\ bcast.selfrem # {} /\ bcast.failed = {}
              /\ bcast.removed = bcast.selfrem) =>
        \A h \in Through : Got(h, bcast.chunk) = 1

\* Handle h is owed the chunk being broadcast: registered since the start of
\* the pass, live, and not yet written.
Pending(h) ==
    /\ bcast.active
    /\ h \in bcast.start
    /\ Registered(h)
    /\ conn[h] \in Live
    /\ Got(h, bcast.chunk) = 0

\* The loop waits for the write to s to complete, and s is connected.
AwaitingWrite(s) == spc = "drain" /\ cur = s /\ conn[s] \in Live

\* C3: a client s whose write never completes does not stall delivery: a
\* handle that is owed the current chunk while the loop waits for s gets it
\* (or leaves) even if the wait for s never ends.
C3_SlowClientDoesNotStall ==
    \A s \in Clients : \A h \in Clients \ {s} :
        (AwaitingWrite(s) /\ Pending(h)) ~> (~AwaitingWrite(s) \/ ~Pending(h))

\* C4: a handle added to the registry while the broadcast of a chunk is in
\* progress never receives that chunk.
C4_LateJoinerMissesChunk ==
    \A h \in bcast.added : Got(h, bcast.chunk) = 0

\* The i-th block of CommandRead bytes written upstream.
UpFrame(i) == SubSeq(upOut, CommandRead * (i - 1) + 1, CommandRead * i)

\* The blocks written upstream by client c, in the order of their writes.
RECURSIVE FramesOf(_, _)
FramesOf(c, n) ==
    IF n = 0 THEN <<>>
    ELSE IF upLog[n] = c THEN Append(FramesOf(c, n - 1), UpFrame(n))
    ELSE FramesOf(c, n - 1)

\* a is b with some elements left out.
RECURSIVE IsSubseq(_, _)
IsSubseq(a, b) ==
    IF a = <<>> THEN TRUE
    ELSE IF b = <<>> THEN FALSE
    ELSE IF Head(a) = Head(b) THEN IsSubseq(Tail(a), Tail(b))
    ELSE IsSubseq(a, Tail(b))

ReadsFrame(c) ==
    /\ HandlersRun
    /\ hpc[c] = "read"
    /\ conn[c] \in Live
    /\ Len(cin[c]) >= CommandRead
    /\ hpc'[c] # hpc[c]

\* C6: a complete frame read from a client is forwarded upstream unchanged
\* whatever its opcode, and the handler goes on to its next read.
C6_AnyOpcodeForwarded ==
    [][\A c \in Clients :
         ReadsFrame(c) =>
            /\ hpc'[c] = "send_drain"
            /\ up \in Live => upOut' = upOut \o SubSeq(cin[c], 1, CommandRead)]_vars

\* The read of c's handler has fewer bytes than a frame to return, on a
\* connection that is open.
PartialFrame(c) ==
    /\ HandlersRun
    /\ hpc[c] = "read"
    /\ conn[c] \in Live
    /\ Len(cin[c]) > 0
    /\ Len(cin[c]) < CommandRead

\* C7: while fewer than 5 bytes of a frame have arrived on an open
\* connection the handler forwards nothing and stays at its read.
C7_PartialFrameWaits ==
    [][\A c \in Clients :
         PartialFrame(c) =>
            /\ hpc'[c] = "read"
            /\ upLog' # upLog => upLog'[Len(upLog')] # c]_vars

HeaderCaptured == mainpc \notin {"start", "connected", "failed"}

\* C8: the header is captured at upstream connect, before the listener
\* accepts, and never changes afterwards; the first bytes written to every
\* accepted client are that header.
C8_HeaderReplayed ==
    /\ [](/\ listening => HeaderCaptured
          /\ HeaderCaptured =>
                \E n \in 1..RTL_HEADER_SIZE : header = SubSeq(UpstreamHello, 1, n)
          /\ \A c \in Clients :
                hpc[c] # "none" => Len(out[c]) >= 1 /\ out[c][1] = header)
    /\ [][HeaderCaptured => header' = header]_vars

\* Two clients accepted at different times: one has had a chunk after its
\* header, the other was accepted after that chunk and has only its header.
C8_Witness ==
    \E a, b \in Clients :
        /\ Len(out[a]) >= 2
        /\ out[a][1] = header
        /\ hpc[b] # "none"
        /\ out[b] = <<header>>
        /\ chunkNo >= 1
        /\ spc = "read"

\* The drain of the broadcast write raises for the handle the loop is at.
WriteFails ==
    /\ spc = "drain"
    /\ conn[cur] = "lost"
    /\ bcast'.failed # bcast.failed

\* C9: a write failure on a handle during the broadcast does not end the
\* upstream loop and changes no handler's state: the loop goes on with the
\* next handle or the next read.
C9_WriteFailureIsLocal ==
    [][WriteFails =>
         /\ spc' \in {"drain", "read"}
         /\ hpc' = hpc
         /\ mainpc' = mainpc]_vars

\* No client is connected or registered and the listener is closed.
RelayEnded ==
    /\ ~listening
    /\ client_writers = <<>>
    /\ \A c \in Clients : conn[c] \notin Live

\* C10: after upstream reaches the end of its stream the relay ends: the
\* loop has stopped, and in the end every client connection is closed, none
\* is registered and none is accepted.
C10_EndOfStreamEndsRelay == (spc = "done") ~> RelayEnded

\* The handler of c is inside its try block, at one of its awaits.
InTry(c) == hpc[c] \in {"header_drain", "read", "send_drain"}

\* The ways out of the try block: the header write failed, the peer closed,
\* the read raised, the frame could not be decoded, the upstream send failed,
\* the task was cancelled.
Reasons == {"header", "eof", "reset", "decode", "upstream", "cancel"}

\* C11: whichever way a handler leaves its try block, Closing runs exactly
\* once: in the step that leaves, the handle is out of the registry and the
\* connection is closed, and nothing of it changes afterwards; a handler
\* whose header write failed reads and forwards no command.
C11_ClosingExactlyOnce ==
    /\ [](\A c \in Clients :
            /\ hpc[c] = "done" <=> why[c] \in Reasons
            /\ hpc[c] = "done" => conn[c] = "closed" /\ ~Registered(c))
    /\ [][\A c \in Clients :
            /\ (InTry(c) /\ hpc'[c] \notin {"header_drain", "read", "send_drain"}) =>
                  /\ hpc'[c] = "done"
                  /\ why[c] = "none"
                  /\ why'[c] \in Reasons
                  /\ c \notin Range(client_writers')
                  /\ conn'[c] = "closed"
            /\ hpc[c] = "done" =>
                  /\ hpc'[c] = "done"
                  /\ why'[c] = why[c]
                  /\ conn'[c] = "closed"
            /\ (hpc[c] = "header_drain" /\ conn[c] \notin Live /\ hpc'[c] # hpc[c]) =>
                  /\ hpc'[c] = "done"
                  /\ upLog' = upLog]_vars

\* Three handlers have ended, each another way: a failed header write, a
\* clean close of the peer, a cancellation.
C11_Witness ==
    /\ \A c \in Clients : hpc[c] = "done"
    /\ { why[c] : c \in Clients } = {"header", "eof", "cancel"}

\* The handler of c runs its finally block in this step.
ClosingStep(c) == InTry(c) /\ hpc'[c] = "done"

\* The broadcast loop resumes from the drain of the handle it is at.
DrainStep == spc = "drain" /\ (spc' # spc \/ it' # it)

\* C12: removing a handle that is not in the registry leaves the registry as
\* it is and raises nothing, in rem_client and in the loop's except clauses:
\* a Closing after the loop pruned the handle, and the loop's prune after the
\* handler removed it, change no entry of the registry and end no task.
C12_RemoveAbsentIsNoOp ==
    /\ [](\A h \in Clients \ Range(client_writers) :
            /\ rem_client(client_writers, h) = client_writers
            /\ PruneWriter(client_writers, h) = client_writers)
    /\ [][/\ \A c \in Clients :
               (ClosingStep(c) /\ ~Registered(c)) =>
                    client_writers' = client_writers /\ spc' = spc
          /\ (DrainStep /\ ~Registered(cur)) =>
                    client_writers' = client_writers /\ spc' # "crashed"]_vars

\* In one pass both have happened: handle a was pruned by the loop and its
\* handler has run Closing since; handle b was removed by its handler while
\* the loop awaited its drain, and the loop has resumed since.
C12_Witness ==
    \E a, b \in Clients :
        /\ a \in bcast.failed \cap bcast.removed
        /\ hpc[a] = "done"
        /\ b \in bcast.removed \ (bcast.selfrem \cup bcast.failed)
        /\ hpc[b] = "done"
        /\ ~(spc = "drain" /\ cur = b)

\* A write made to a client is a chunk of the stream, not the header.
IsChunk(w) == Len(w) = 2 /\ w[1] = 170

\* The read a chunk came from.
ReadNo(w) == w[2]

\* C13: every client receives chunks in the order they were read from
\* upstream: of two chunks written to one client the earlier written is the
\* earlier read; the loop is at the read only between passes, and a pass
\* writes nothing but the chunk of the last read.
C13_ChunksInReadOrder ==
    /\ \A h \in Clients : \A i, j \in 1..Len(out[h]) :
          (i < j /\ IsChunk(out[h][i]) /\ IsChunk(out[h][j])) =>
              ReadNo(out[h][i]) < ReadNo(out[h][j])
    /\ \A h \in Clients : \A i \in 1..Len(out[h]) :
          IsChunk(out[h][i]) => ReadNo(out[h][i]) \in 1..chunkNo
    /\ spc = "read" => ~bcast.active
    /\ spc = "drain" => bcast.active /\ bcast.chunk = chunkNo /\ data = Chunk(chunkNo)

\* A client has had both chunks, and another, accepted between the two
\* passes, the second only.
C13_Witness ==
    \E a, b \in Clients :
        /\ out[a] = <<header, Chunk(1), Chunk(2)>>
        /\ out[b] = <<header, Chunk(2)>>

\* The read of c's handler returns b'': the peer has closed and every byte
\* it sent has been read.
ZeroLengthRead(c) ==
    /\ hpc[c] = "read"
    /\ conn[c] = "eof"
    /\ cin[c] = <<>>
    /\ cnet[c] = <<>>
    /\ hpc'[c] # hpc[c]

\* C14: the step in which a handler's read returns zero-length is the step
\* that removes its handle from the registry, and no write is made to the
\* handle after that step.
C14_ZeroReadRemovesAtOnce ==
    [][\A c \in Clients :
         /\ ZeroLengthRead(c) =>
               /\ hpc'[c] = "done"
               /\ c \notin Range(client_writers')
         /\ why[c] = "eof" =>
               /\ out'[c] = out[c]
               /\ c \notin Range(client_writers')]_vars

\* Client c had the first chunk, its read then returned zero-length, and
\* the second chunk went to another client and not to c.
C14_Witness ==
    \E c \in Clients : \E h \in Clients \ {c} :
        /\ why[c] = "eof"
        /\ Got(c, 1) = 1
        /\ Got(c, 2) = 0
        /\ Got(h, 2) = 1

\* The upstream connection could not be established, or was lost before
\* __aenter__ returned.
StartupFailed == mainpc = "failed"

\* C15: when the upstream connection cannot be established the process ends
\* with a status that is not zero, and nothing else has run or ever runs:
\* the listener is not started, no client is accepted, splitter is not
\* started.
C15_StartupFailureIsFatal ==
    /\ [](/\ up = "refused" => StartupFailed
          /\ StartupFailed =>
                /\ exitStatus \notin {0, -1}
                /\ ~listening
                /\ spc = "none"
                /\ client_writers = <<>>
                /\ \A c \in Clients : hpc[c] = "none" /\ conn[c] = "none")
    /\ [][StartupFailed => mainpc' = "failed"]_vars

\* The connection to upstream was refused and the process has ended.
C15_Witness == up = "refused" /\ StartupFailed /\ exitStatus = 1

\* The handle of c enters the registry in this step.
Registers(c) == ~Registered(c) /\ c \in Range(client_writers')

\* C16: the header is the first write to every client and comes whole, in
\* one write, before any chunk: the step that adds a handle to the registry
\* is the step that writes the header to it, so the loop finds no handle in
\* the registry that has not had the header, even in the middle of a pass.
C16_HeaderBeforeChunks ==
    /\ [](\A c \in Clients :
            /\ Registered(c) => Len(out[c]) >= 1 /\ out[c][1] = header
            /\ \A i \in 1..Len(out[c]) :
                  IsChunk(out[c][i]) => i > 1 /\ out[c][1] = header)
    /\ [][\A c \in Clients : Registers(c) => out'[c] = <<header>>]_vars

\* A handle registered in the middle of a pass has had the header and then
\* the chunk of that pass.
C16_Witness ==
    \E c \in bcast.added :
        /\ Len(header) = RTL_HEADER_SIZE
        /\ out[c] = <<header, Chunk(bcast.chunk)>>

\* A chunk is written to handle h in this step.
ChunkWritten(h) ==
    /\ Len(out'[h]) = Len(out[h]) + 1
    /\ IsChunk(out'[h][Len(out'[h])])

AllHandlersOver == \A c \in Clients : hpc[c] \in {"none", "done"}

\* C18: the registry holds a handle at most once, and only of a handler that
\* has been entered and has not run Closing; so when every handler has run
\* Closing the registry is empty.
C18_RegistryHoldsLiveHandlersOnce ==
    /\ \A h \in Clients : Occurrences(client_writers, h) <= 1
    /\ \A h \in Clients : Registered(h) => InTry(h)
    /\ Len(client_writers) <= Cardinality({ h \in Clients : InTry(h) })
    /\ AllHandlersOver => client_writers = <<>>

\* Clients came and went while the relay kept running: at least two handlers
\* have run Closing, none is left, and the registry is empty.
C18_Witness ==
    /\ mainpc = "running"
    /\ spc \in {"read", "drain"}
    /\ AllHandlersOver
    /\ Cardinality({ c \in Clients : hpc[c] = "done" }) >= 2
    /\ client_writers = <<>>

\* splitter runs in this step.
SplitterStep == spc # "none" /\ splitVars' # splitVars

\* The loop has taken the handle of c out of the registry and the handler of
\* c has not run its finally block yet.
Pruned(c) == InTry(c) /\ ~Registered(c)

\* C19: the loop only removes handles: no step of splitter closes a
\* connection or changes a handler's state, and a handle the loop has pruned
\* is closed by the Closing of its own handler and by nothing else.
C19_BroadcastOnlyRemoves ==
    /\ [](\A c \in Clients :
            /\ conn[c] = "closed" <=> hpc[c] = "done"
            /\ Pruned(c) => conn[c] = "lost")
    /\ [][/\ SplitterStep => conn' = conn /\ hpc' = hpc /\ why' = why
          /\ \A c \in Clients :
                (Pruned(c) /\ hpc'[c] = hpc[c]) => conn'[c] = conn[c]]_vars

\* The loop has pruned a handle after a failed write and has finished the
\* pass; the handler of that handle has not run yet and its connection is
\* not closed.
C19_Witness ==
    \E c \in bcast.failed \cap bcast.removed :
        /\ PassOver
        /\ spc = "read"
        /\ Pruned(c)
        /\ conn[c] # "closed"

\* The drain of send_command raises in the handler of c: the upstream
\* connection does not take the command.
UpstreamSendFails(c) ==
    /\ hpc[c] = "send_drain"
    /\ up \notin Live
    /\ hpc'[c] # hpc[c]

\* C20: a failed upstream write of a command ends the handler that issued
\* it and nothing else: its handle leaves the registry and its connection is
\* closed, the other handles stay registered in their order, the other
\* handlers and connections are as they were, splitter and main are where
\* they were.
C20_UpstreamFailureIsLocal ==
    [][\A c \in Clients :
         UpstreamSendFails(c) =>
            /\ hpc'[c] = "done"
            /\ conn'[c] = "closed"
            /\ client_writers' = rem_client(client_writers, c)
            /\ c \notin Range(client_writers')
            /\ \A h \in Clients \ {c} :
                  /\ hpc'[h] = hpc[h]
                  /\ conn'[h] = conn[h]
                  /\ Registered(h) <=> h \in Range(client_writers')
            /\ splitVars' = splitVars
            /\ mainVars' = mainVars
            /\ out' = out]_vars

\* The send of c's command failed while the relay was running; another
\* client is still registered and served by its handler.
C20_Witness ==
    \E c \in Clients : \E h \in Clients \ {c} :
        /\ why[c] = "upstream"
        /\ mainpc = "running"
        /\ Registered(h)
        /\ InTry(h)
        /\ conn[h] = "open"

====
